---- MODULE Spec2Model ----
(***************************************************************************)
(* The on-demand price estimation pipeline of VeriFone                     *)
(* (services/predict_price_service.py): fetch_training_data,               *)
(* preprocess_input_mobile, preprocess_training_data, train_model,         *)
(* predict_price and run_pipeline, over a Mongo collection of listing      *)
(* documents.                                                              *)
(*                                                                         *)
(* Python values are tagged records, so that None, a bool, an int and a    *)
(* str stay different values.  A str is a sequence of one-character        *)
(* strings, so that substring tests, upper-casing and digit extraction are *)
(* computed character by character as the code computes them.              *)
(*                                                                         *)
(* Prices are computed as exact fractions (num/den in lowest terms); the   *)
(* code computes them in float64, which differs only by rounding noise.    *)
(***************************************************************************)
EXTENDS Integers, Sequences, FiniteSets, TLC

VARIABLES
    store,          \* the used_mobiles collection: a sequence of documents
    now,            \* datetime.now(timezone.utc), in days
    pending,        \* the query devices callers have still to submit
    pc,             \* position of the current run_pipeline call
    input_mobile,   \* run_pipeline's parameter
    training_data,  \* run_pipeline's local: the fetched UsedMobile list
    input_df,       \* run_pipeline's local: the encoded query row
    training_df,    \* run_pipeline's local: the encoded training table
    model,          \* run_pipeline's local: the fitted regressor
    outcome,        \* what the current call returned or raised
    trace,          \* the stages the current call has entered, in order
    log,            \* the completed calls: device and outcome
    other,          \* a call of run_pipeline in a second thread: its frame
    scrape          \* a run of scrape_used_data: its locals

vars == <<store, now, pending, pc, input_mobile, training_data, input_df,
          training_df, model, outcome, trace, log, other, scrape>>

-----------------------------------------------------------------------------
(* Python values *)

PyNone == [tag |-> "None"]
PyBool(b) == [tag |-> "bool", b |-> b]
PyInt(n) == [tag |-> "int", n |-> n]
PyStr(s) == [tag |-> "str", s |-> s]
Unbound == [tag |-> "unbound"]

\* Python truthiness, as `if v:` and `a or b` test it.
Truthy(v) ==
    CASE v.tag = "None" -> FALSE
      [] v.tag = "bool" -> v.b
      [] v.tag = "int" -> v.n # 0
      [] v.tag = "str" -> Len(v.s) > 0
      [] OTHER -> TRUE

-----------------------------------------------------------------------------
(* Strings *)

Digits == <<"0", "1", "2", "3", "4", "5", "6", "7", "8", "9">>

IsDigit(c) == \E i \in 1..10 : Digits[i] = c

DigitVal(c) == (CHOOSE i \in 1..10 : Digits[i] = c) - 1

\* str.upper() and case folding, on the letters the inputs use.
UpperChar(c) ==
    CASE c = "a" -> "A"
      [] c = "b" -> "B"
      [] c = "g" -> "G"
      [] c = "t" -> "T"
      [] OTHER -> c

LowerChar(c) ==
    CASE c = "A" -> "a"
      [] c = "B" -> "b"
      [] c = "G" -> "g"
      [] c = "T" -> "t"
      [] OTHER -> c

Upper(s) == [i \in 1..Len(s) |-> UpperChar(s[i])]

\* `sub in s`
Contains(s, sub) ==
    \E i \in 1..(Len(s) - Len(sub) + 1) : SubSeq(s, i, i + Len(sub) - 1) = sub

GB == <<"G", "B">>

\* int() of a string of digits
RECURSIVE ToInt(_)
ToInt(ds) ==
    IF Len(ds) = 0 THEN 0
    ELSE 10 * ToInt(SubSeq(ds, 1, Len(ds) - 1)) + DigitVal(ds[Len(ds)])

\* ''.join(filter(str.isdigit, val))
AllDigits(s) == SelectSeq(s, IsDigit)

HasDigit(s) == \E i \in 1..Len(s) : IsDigit(s[i])

\* re.search(r'\d+', val).group(): the first maximal run of digits
FirstDigitRun(s) ==
    LET first == CHOOSE i \in 1..Len(s) :
                     IsDigit(s[i]) /\ \A j \in 1..(i - 1) : ~IsDigit(s[j])
        last == CHOOSE k \in first..Len(s) :
                     /\ \A j \in first..k : IsDigit(s[j])
                     /\ (k = Len(s) \/ ~IsDigit(s[k + 1]))
    IN SubSeq(s, first, last)

-----------------------------------------------------------------------------
(* The regular expression of the store query *)

Lit(c) == [k |-> "lit", c |-> c]
AnyChar == [k |-> "any"]

\* re.escape(input_model): every character becomes a literal
ReEscape(s) == [i \in 1..Len(s) |-> Lit(s[i])]

\* "$regex" with "$options": "i": an unanchored, case-insensitive search
RegexSearchI(pattern, s) ==
    \E i \in 1..(Len(s) - Len(pattern) + 1) :
        \A j \in 1..Len(pattern) :
            \/ pattern[j].k = "any"
            \/ /\ pattern[j].k = "lit"
               /\ LowerChar(pattern[j].c) = LowerChar(s[i + j - 1])

-----------------------------------------------------------------------------
(* Program constants *)

MAX_DATA_AGE_DAYS == 30

MIN_RECORDS == 50

DEFAULT_CAPACITY == 6

ROUND_UNIT == 500

-----------------------------------------------------------------------------
(* Results of a stage: a value, or the exception it raised *)

Return(v) == [ok |-> TRUE, val |-> v]

Raise(type, stage, count) ==
    [ok |-> FALSE, type |-> type, stage |-> stage, count |-> count]

-----------------------------------------------------------------------------
(* The Listing Record schema (models.UsedMobile) *)

\* The fields of UsedMobile, as the extraction prompt lists them.
UsedMobileFields ==
    {"brand", "model", "ram", "storage", "condition", "pta_approved",
     "is_panel_changed", "screen_crack", "panel_dot", "panel_line",
     "panel_shade", "camera_lens_ok", "fingerprint_ok", "with_box",
     "with_charger", "price", "city", "listing_source", "images", "post_date"}

BoolFields ==
    {"pta_approved", "is_panel_changed", "screen_crack", "panel_dot",
     "panel_line", "panel_shade", "camera_lens_ok", "fingerprint_ok",
     "with_box", "with_charger"}

StrFields == {"brand", "ram", "storage", "city", "listing_source", "post_date"}

\* UsedMobile(**doc) succeeds: model is a string, every other field is of
\* its type or null.  Keys that are no field (_id, extraction_date) are
\* ignored.
Validates(doc) ==
    /\ doc["model"].tag = "str"
    /\ \A f \in BoolFields : doc[f].tag \in {"bool", "None"}
    /\ \A f \in StrFields : doc[f].tag \in {"str", "None"}
    /\ doc["condition"].tag \in {"int", "None"}
    /\ doc["price"].tag \in {"int", "None"}
    /\ doc["images"].tag \in {"list", "None"}

UsedMobile(doc) == [f \in UsedMobileFields |-> doc[f]]

-----------------------------------------------------------------------------
(* fetch_training_data *)

\* The input compiled as a pattern without escaping: "." matches any character
RegexCompile(s) ==
    [i \in 1..Len(s) |-> IF s[i] = "." THEN AnyChar ELSE Lit(s[i])]

\* A query that hands the input to "$regex" as it came
FindUnescaped(input_model, db, t) ==
    LET cutoff_date == t - MAX_DATA_AGE_DAYS
        pattern == RegexCompile(input_model.s)
        Hit(doc) == /\ doc["model"].tag = "str"
                    /\ RegexSearchI(pattern, doc["model"].s)
                    /\ doc["extraction_date"] >= cutoff_date
    IN SelectSeq(db, Hit)

\* db.find(query): the documents whose model matches the escaped input,
\* ignoring case, and whose extraction_date is not before the cutoff,
\* in store order.
Find(input_model, db, t) ==
    LET cutoff_date == t - MAX_DATA_AGE_DAYS
        pattern == ReEscape(input_model.s)
        Hit(doc) == /\ doc["model"].tag = "str"
                    /\ RegexSearchI(pattern, doc["model"].s)
                    /\ doc["extraction_date"] >= cutoff_date
    IN SelectSeq(db, Hit)

\* lines 43-44: images stored as a comma-separated string become a list
SplitImages(doc) ==
    IF doc["images"].tag = "str"
    THEN [doc EXCEPT !["images"] = [tag |-> "list"]]
    ELSE doc

\* A loop that gives up at the first document that fails validation
RECURSIVE DeserializeUntilInvalid(_)
DeserializeUntilInvalid(result) ==
    IF Len(result) = 0 THEN <<>>
    ELSE LET doc == SplitImages(Head(result))
         IN IF Validates(doc)
            THEN <<UsedMobile(doc)>> \o DeserializeUntilInvalid(Tail(result))
            ELSE <<>>

\* The loop over the cursor: a document that fails validation is skipped.
RECURSIVE Deserialize(_)
Deserialize(result) ==
    IF Len(result) = 0 THEN <<>>
    ELSE LET doc == SplitImages(Head(result))
         IN IF Validates(doc)
            THEN <<UsedMobile(doc)>> \o Deserialize(Tail(result))
            ELSE Deserialize(Tail(result))

\* A threshold test that lets a list one short of the minimum through
FetchTrainingDataOffByOne(input_model, db, t) ==
    LET training == Deserialize(Find(input_model, db, t))
    IN IF Len(training) < MIN_RECORDS - 1
       THEN Raise("RuntimeError", "fetch", Len(training))
       ELSE Return(training)

FetchTrainingData(input_model, db, t) ==
    LET training == Deserialize(Find(input_model, db, t))
    IN IF Len(training) < MIN_RECORDS
       THEN Raise("RuntimeError", "fetch", Len(training))
       ELSE Return(training)

-----------------------------------------------------------------------------
(* The feature encoders *)

\* lines 66-68 and 102-104: a bool becomes 0 or 1
BoolToInt(v) == IF v.tag = "bool" THEN PyInt(IF v.b THEN 1 ELSE 0) ELSE v

\* The keys of model_dump(), in the order the fields are declared
ModelDumpOrder ==
    <<"brand", "model", "ram", "storage", "condition", "pta_approved",
      "is_panel_changed", "screen_crack", "panel_dot", "panel_line",
      "panel_shade", "camera_lens_ok", "fingerprint_ok", "with_box",
      "with_charger", "price", "city", "listing_source", "images",
      "post_date">>

\* DataFrame.columns: pd.DataFrame(list of dicts) takes the columns in key
\* order, and drop() keeps the order of the columns that stay
Columns(row) == SelectSeq(ModelDumpOrder, LAMBDA c : c \in DOMAIN row)

\* DataFrame.drop(columns=...): the row without these columns
DropColumns(row, cols) == [c \in (DOMAIN row) \ cols |-> row[c]]

\* A drop list for the query row that forgets city
InputDroppedKeepsCity == {"price", "images", "post_date", "listing_source"}

InputDropped == {"price", "images", "post_date", "listing_source", "city"}

TrainingDropped ==
    {"images", "post_date", "listing_source", "city", "model", "brand"}

\* lines 61-64: a capacity string holding "GB" in any case becomes the
\* integer of all its digits, None when it has none; any other value stays.
InputCapacity(val) ==
    IF val.tag = "str" /\ Contains(Upper(val.s), GB)
    THEN LET numeric_part == AllDigits(val.s)
         IN IF Len(numeric_part) > 0 THEN PyInt(ToInt(numeric_part))
            ELSE PyNone
    ELSE val

PreprocessInputMobile(mobile) ==
    LET parsed == [f \in DOMAIN mobile |->
                      IF f \in {"ram", "storage"}
                      THEN InputCapacity(mobile[f]) ELSE mobile[f]]
        ints == [f \in DOMAIN parsed |-> BoolToInt(parsed[f])]
    IN DropColumns(ints, InputDropped)

\* line 81: the record can supply the fallback
HasFallback(item) ==
    /\ Truthy(item["ram"]) /\ Contains(item["ram"].s, GB)
    /\ Truthy(item["storage"]) /\ Contains(item["storage"].s, GB)

\* lines 80-84: the first record, in list order, that can supply it
FallbackIndex(training) ==
    IF \E i \in 1..Len(training) : HasFallback(training[i])
    THEN CHOOSE i \in 1..Len(training) :
             /\ HasFallback(training[i])
             /\ \A j \in 1..(i - 1) : ~HasFallback(training[j])
    ELSE 0

\* lines 94-100: the first run of digits of a string, 6 without one
TrainingCapacity(val) ==
    IF val.tag = "str"
    THEN IF HasDigit(val.s) THEN PyInt(ToInt(FirstDigitRun(val.s)))
         ELSE PyInt(DEFAULT_CAPACITY)
    ELSE IF val.tag # "int" THEN PyInt(DEFAULT_CAPACITY) ELSE val

\* lines 90-106: one training row
TrainingRow(item, fallback_ram, fallback_storage) ==
    LET filled == [item EXCEPT
                      !["ram"] = IF Truthy(@) THEN @ ELSE fallback_ram,
                      !["storage"] = IF Truthy(@) THEN @ ELSE fallback_storage]
        parsed == [f \in DOMAIN filled |->
                      IF f \in {"ram", "storage"}
                      THEN TrainingCapacity(filled[f]) ELSE filled[f]]
    IN [f \in DOMAIN parsed |-> BoolToInt(parsed[f])]

PreprocessTrainingData(training) ==
    LET k == FallbackIndex(training)
    IN IF k = 0
       THEN Raise("ValueError", "encode_many", 0)
       ELSE Return([i \in 1..Len(training) |->
                DropColumns(TrainingRow(training[i], training[k]["ram"],
                                        training[k]["storage"]),
                            TrainingDropped)])

-----------------------------------------------------------------------------
(* Exact fractions *)

RECURSIVE GCD(_, _)
GCD(a, b) == IF b = 0 THEN a ELSE GCD(b, a % b)

Frac(n, d) == LET g == GCD(n, d) IN [num |-> n \div g, den |-> d \div g]

\* x * p / q, reduced before multiplying
MulFrac(x, p, q) ==
    LET g1 == GCD(x.num, q)
        g2 == GCD(p, x.den)
    IN [num |-> (x.num \div g1) * (p \div g2),
        den |-> (x.den \div g2) * (q \div g1)]

\* Python's round(): to the nearest integer, a tie to the even one
RoundHalfEven(x) ==
    LET q == x.num \div x.den
        r == x.num % x.den
    IN IF 2 * r < x.den THEN q
       ELSE IF 2 * r > x.den THEN q + 1
       ELSE IF q % 2 = 0 THEN q ELSE q + 1

-----------------------------------------------------------------------------
(* train_model and the fitted regressor *)

\* A fit that keeps the rows without a price, labelled 0
TrainModelKeepsUnpriced(df) ==
    IF Len(df) = 0
    THEN Raise("ValueError", "train", 0)
    ELSE Return([X |-> [i \in 1..Len(df) |-> DropColumns(df[i], {"price"})],
                 y |-> [i \in 1..Len(df) |->
                            IF df[i]["price"].tag = "None" THEN 0
                            ELSE df[i]["price"].n]])

\* lines 115-119: the rows with a price, split into features X and label y.
\* RandomForestRegressor.fit raises ValueError on an empty table.
TrainModel(df) ==
    LET priced == SelectSeq(df, LAMBDA row : row["price"].tag # "None")
    IN IF Len(priced) = 0
       THEN Raise("ValueError", "train", 0)
       ELSE Return([X |-> [i \in 1..Len(priced) |->
                               DropColumns(priced[i], {"price"})],
                    y |-> [i \in 1..Len(priced) |-> priced[i]["price"].n]])

RECURSIVE SumOver(_, _)
SumOver(y, idx) ==
    IF idx = {} THEN 0
    ELSE LET i == CHOOSE j \in idx : TRUE IN y[i] + SumOver(y, idx \ {i})

\* Number of feature columns on which two rows differ
Distance(a, b) == Cardinality({c \in DOMAIN a : a[c] # b[c]})

\* model.predict(df)[0].  The forest is a library: fully grown regression
\* trees (100 of them, random_state fixed at 42) that answer a query row
\* with the mean label of the training rows sharing its leaf.  It is
\* modelled by the mean price of the training rows nearest to the query
\* row: a deterministic function of the fitted table and the query row
\* that reads every feature column and lies between the least and the
\* greatest training price.
ForestPredict(fitted, row) ==
    LET n == Len(fitted.X)
        least == CHOOSE d \in 0..Cardinality(DOMAIN row) :
                     /\ \E i \in 1..n : Distance(row, fitted.X[i]) = d
                     /\ \A i \in 1..n : Distance(row, fitted.X[i]) >= d
        leaf == {i \in 1..n : Distance(row, fitted.X[i]) = least}
    IN Frac(SumOver(fitted.y, leaf), Cardinality(leaf))

-----------------------------------------------------------------------------
(* predict_price *)

\* `if mobile.flag:` and `if mobile.flag is False:`
IsTrue(v) == Truthy(v)

IsFalse(v) == v = PyBool(FALSE)

\* The rules with `not mobile.camera_lens_ok` for `is False`
AdjustNotFlag(raw, mobile) ==
    LET p1 == IF Truthy(mobile["is_panel_changed"]) THEN MulFrac(raw, 4, 5) ELSE raw
        p2 == IF Truthy(mobile["panel_dot"]) THEN MulFrac(p1, 3, 4) ELSE p1
        p3 == IF Truthy(mobile["panel_line"]) THEN MulFrac(p2, 7, 10) ELSE p2
        p4 == IF Truthy(mobile["panel_shade"]) THEN MulFrac(p3, 3, 4) ELSE p3
        p5 == IF Truthy(mobile["screen_crack"]) THEN MulFrac(p4, 7, 10) ELSE p4
        p6 == IF ~Truthy(mobile["camera_lens_ok"]) THEN MulFrac(p5, 9, 10) ELSE p5
        p7 == IF mobile["fingerprint_ok"] = PyBool(FALSE) THEN MulFrac(p6, 17, 20) ELSE p6
        p8 == IF mobile["pta_approved"] = PyBool(FALSE) THEN MulFrac(p7, 4, 5) ELSE p7
    IN p8

\* lines 129-144: the eight rules, in order, each on the running value
Adjust(raw, mobile) ==
    LET p1 == IF IsTrue(mobile["is_panel_changed"]) THEN MulFrac(raw, 4, 5) ELSE raw
        p2 == IF IsTrue(mobile["panel_dot"]) THEN MulFrac(p1, 3, 4) ELSE p1
        p3 == IF IsTrue(mobile["panel_line"]) THEN MulFrac(p2, 7, 10) ELSE p2
        p4 == IF IsTrue(mobile["panel_shade"]) THEN MulFrac(p3, 3, 4) ELSE p3
        p5 == IF IsTrue(mobile["screen_crack"]) THEN MulFrac(p4, 7, 10) ELSE p4
        p6 == IF IsFalse(mobile["camera_lens_ok"]) THEN MulFrac(p5, 9, 10) ELSE p5
        p7 == IF IsFalse(mobile["fingerprint_ok"]) THEN MulFrac(p6, 17, 20) ELSE p6
        p8 == IF IsFalse(mobile["pta_approved"]) THEN MulFrac(p7, 4, 5) ELSE p7
    IN p8

\* A rounding that forgets to scale back by the unit
RoundToUnitUnscaled(x) == RoundHalfEven(MulFrac(x, 1, ROUND_UNIT))

\* line 146: round(predicted_price / 500) * 500
RoundToUnit(x) == RoundHalfEven(MulFrac(x, 1, ROUND_UNIT)) * ROUND_UNIT

\* model.predict raises ValueError when the query row's columns are not
\* those it was fitted on, or when a value is no number (None is NaN).
Scorable(fitted, df) ==
    /\ DOMAIN df = DOMAIN fitted.X[1]
    /\ \A c \in DOMAIN df : df[c].tag \in {"int", "None"}

PredictPrice(fitted, df_in, mobile) ==
    LET df == DropColumns(df_in, {"model", "brand"})
    IN IF ~Scorable(fitted, df)
       THEN Raise("ValueError", "predict", 0)
       ELSE Return(RoundToUnit(Adjust(ForestPredict(fitted, df), mobile)))

-----------------------------------------------------------------------------
(* Bounds of the model *)

\* Documents placed before the bulk of a store
MaxHead == 2

\* Days that may pass between the first call and the last
MaxDaysPassed == 1

\* Calls of run_pipeline in one behaviour
MaxCalls == 2

\* Flags a query device sets, unless it sets all of them
MaxFlags == 2

FirstDay == MAX_DATA_AGE_DAYS

LastDay == FirstDay + MaxDaysPassed

-----------------------------------------------------------------------------
(* Documents of the store *)

Cap4GB == <<"4", "G", "B">>
Cap8GB == <<"8", "G", "B">>
Cap64GB == <<"6", "4", "G", "B">>
Cap128GB == <<"1", "2", "8", "G", "B">>
Cap4gb == <<"4", "g", "b">>
Cap64gb == <<"6", "4", "g", "b">>
Cap1TB == <<"1", "T", "B">>

\* A listing as save_to_db writes it: model_dump() of a UsedMobile, images
\* a comma-separated string, plus extraction_date and _id.
BaseDoc ==
    [_id |-> PyNone,
     extraction_date |-> FirstDay,
     brand |-> PyStr(<<"G">>),
     model |-> PyStr(<<"6", "A">>),
     ram |-> PyStr(Cap8GB),
     storage |-> PyStr(Cap128GB),
     condition |-> PyInt(9),
     pta_approved |-> PyBool(TRUE),
     is_panel_changed |-> PyBool(FALSE),
     screen_crack |-> PyBool(FALSE),
     panel_dot |-> PyBool(FALSE),
     panel_line |-> PyBool(FALSE),
     panel_shade |-> PyBool(FALSE),
     camera_lens_ok |-> PyBool(TRUE),
     fingerprint_ok |-> PyBool(TRUE),
     with_box |-> PyBool(FALSE),
     with_charger |-> PyBool(FALSE),
     price |-> PyInt(30000),
     city |-> PyStr(<<"L">>),
     listing_source |-> PyStr(<<"O">>),
     images |-> PyStr(<<"u">>),
     post_date |-> PyStr(<<"d">>)]

\* Extracted exactly MAX_DATA_AGE_DAYS before the first day, and a day more
BoundaryDoc == [BaseDoc EXCEPT !["extraction_date"] = FirstDay - MAX_DATA_AGE_DAYS]

StaleDoc == [BaseDoc EXCEPT !["extraction_date"] = FirstDay - MAX_DATA_AGE_DAYS - 1]

OtherModelDoc == [BaseDoc EXCEPT !["model"] = PyStr(<<"7">>)]

LongerModelDoc == [BaseDoc EXCEPT !["model"] = PyStr(<<"1", "6", "a", "b">>)]

\* A document UsedMobile rejects: its condition is free text
CorruptDoc == [BaseDoc EXCEPT !["condition"] = PyStr(<<"o", "k">>)]

UnpricedDoc == [BaseDoc EXCEPT !["price"] = PyNone]

WithCapacity(ram, storage) == [BaseDoc EXCEPT !["ram"] = ram, !["storage"] = storage]

MissingCapDoc == WithCapacity(PyNone, PyNone)

DearDoc(flag, value) ==
    [BaseDoc EXCEPT ![flag] = PyBool(value), !["price"] = PyInt(60000)]

Seqs(S, n) == UNION {[1..k -> S] : k \in 0..n}

Fill(doc, n) == [i \in 1..n |-> doc]

\* A few documents, then a bulk that brings the store near the threshold
Stores(kinds, bulk) ==
    {head \o Fill(doc, n) :
        head \in Seqs(kinds, MaxHead), doc \in bulk,
        n \in (MIN_RECORDS - MaxHead)..MIN_RECORDS}

-----------------------------------------------------------------------------
(* Query devices *)

AdjustmentFlags ==
    <<"is_panel_changed", "panel_dot", "panel_line", "panel_shade",
      "screen_crack", "camera_lens_ok", "fingerprint_ok", "pta_approved">>

\* Only the required fields: model, condition, pta_approved
RequiredOnly ==
    [f \in UsedMobileFields |->
        CASE f = "model" -> PyStr(<<"6", "a">>)
          [] f = "condition" -> PyInt(9)
          [] f = "pta_approved" -> PyBool(TRUE)
          [] OTHER -> PyNone]

\* The devices that set the flags of `on` to the values `val` gives them
WithFlags(base, on, val) ==
    [f \in DOMAIN base |-> IF f \in on THEN PyBool(val[f]) ELSE base[f]]

FlagNames == {AdjustmentFlags[i] : i \in 1..Len(AdjustmentFlags)}

\* The value of a flag that triggers its rule
Defect(f) == f \in {"is_panel_changed", "panel_dot", "panel_line",
                    "panel_shade", "screen_crack"}

Unflagged == [RequiredOnly EXCEPT !["pta_approved"] = PyNone]

AllDefects == WithFlags(Unflagged, FlagNames, [f \in FlagNames |-> Defect(f)])

FlaggedDevices ==
    {WithFlags(Unflagged, on, val) :
        on \in {s \in SUBSET FlagNames : Cardinality(s) <= MaxFlags},
        val \in [FlagNames -> BOOLEAN]} \cup {AllDefects}

Queues(devices, n) == Seqs(devices, n) \ {<<>>}

-----------------------------------------------------------------------------
(* run_pipeline, one action per stage *)

\* The call ends: with its price, or with the exception that left it.
Finish(result) ==
    /\ pc' = IF result.ok THEN "done" ELSE "failed"
    /\ outcome' = result
    /\ log' = Append(log, [device |-> input_mobile, at |-> now,
                           outcome |-> result])

\* A caller invokes run_pipeline(input_mobile); a day may have passed since
\* the call before.
StartCall ==
    /\ pc \in {"idle", "done", "failed"}
    /\ pending # <<>>
    /\ input_mobile' = Head(pending)
    /\ pending' = Tail(pending)
    /\ \E t \in {now, now + 1} :
           /\ t <= LastDay
           /\ log = <<>> => t = now
           /\ now' = t
    /\ pc' = "fetch"
    /\ outcome' = Unbound
    /\ trace' = <<>>
    /\ UNCHANGED <<scrape, store, training_data, input_df, training_df, model,
                   log, other>>

\* A fetch that collects into a list that outlives the call
FetchIntoSharedList ==
    /\ pc = "fetch"
    /\ trace' = Append(trace, "fetch")
    /\ UNCHANGED <<scrape, store, other, now, pending, input_mobile, input_df,
                   training_df, model>>
    /\ training_data' =
           training_data \o Deserialize(Find(input_mobile["model"], store, now))
    /\ IF Len(training_data') < MIN_RECORDS
       THEN Finish(Raise("RuntimeError", "fetch", Len(training_data')))
       ELSE pc' = "encode_one" /\ UNCHANGED <<outcome, log>>

\* lines 156-159
Fetch ==
    /\ pc = "fetch"
    /\ trace' = Append(trace, "fetch")
    /\ UNCHANGED <<scrape, store, other, now, pending, input_mobile, input_df,
                   training_df, model>>
    /\ LET r == FetchTrainingData(input_mobile["model"], store, now)
       IN IF ~r.ok
          THEN UNCHANGED training_data /\ Finish(r)
          ELSE /\ training_data' = r.val
               /\ IF Len(r.val) = 0
                  THEN Finish(Raise("RuntimeError", "run_pipeline", 0))
                  ELSE pc' = "encode_one" /\ UNCHANGED <<outcome, log>>

\* line 161
EncodeOne ==
    /\ pc = "encode_one"
    /\ trace' = Append(trace, "encode_one")
    /\ input_df' = PreprocessInputMobile(input_mobile)
    /\ pc' = "encode_many"
    /\ UNCHANGED <<scrape, store, other, now, pending, input_mobile,
                   training_data, training_df, model, outcome, log>>

\* An encode-many whose failure is swallowed: the call goes on to train
EncodeManySwallows ==
    /\ pc = "encode_many"
    /\ trace' = Append(trace, "encode_many")
    /\ UNCHANGED <<scrape, store, other, now, pending, input_mobile,
                   training_data, input_df, model, outcome, log>>
    /\ LET r == PreprocessTrainingData(training_data)
       IN training_df' = IF r.ok THEN r.val ELSE <<>>
    /\ pc' = "train"

\* line 162
EncodeMany ==
    /\ pc = "encode_many"
    /\ trace' = Append(trace, "encode_many")
    /\ UNCHANGED <<scrape, store, other, now, pending, input_mobile,
                   training_data, input_df, model>>
    /\ LET r == PreprocessTrainingData(training_data)
       IN IF ~r.ok
          THEN UNCHANGED training_df /\ Finish(r)
          ELSE /\ training_df' = r.val
               /\ pc' = "train"
               /\ UNCHANGED <<outcome, log>>

\* line 164
Train ==
    /\ pc = "train"
    /\ trace' = Append(trace, "train")
    /\ UNCHANGED <<scrape, store, other, now, pending, input_mobile,
                   training_data, input_df, training_df>>
    /\ LET r == TrainModel(training_df)
       IN IF ~r.ok
          THEN UNCHANGED model /\ Finish(r)
          ELSE /\ model' = r.val
               /\ pc' = "predict"
               /\ UNCHANGED <<outcome, log>>

\* lines 166-168
Predict ==
    /\ pc = "predict"
    /\ trace' = Append(trace, "predict")
    /\ UNCHANGED <<scrape, store, other, now, pending, input_mobile,
                   training_data, input_df, training_df, model>>
    /\ Finish(PredictPrice(model, input_df, input_mobile))

Next == StartCall \/ Fetch \/ EncodeOne \/ EncodeMany \/ Train \/ Predict

-----------------------------------------------------------------------------
(* A second thread calling run_pipeline: the same stages on its own frame *)

\* The frame of a call: the parameter and the locals of run_pipeline
Frame(mobile) ==
    [pc |-> "waiting", input_mobile |-> mobile, training_data |-> <<>>,
     input_df |-> Unbound, training_df |-> <<>>, model |-> Unbound,
     outcome |-> Unbound, trace |-> <<>>]

\* No second thread
NoCaller == [Frame(Unbound) EXCEPT !.pc = "absent"]

Entered(frame, stage) == [frame EXCEPT !.trace = Append(@, stage)]

Ended(frame, result) ==
    [frame EXCEPT !.pc = IF result.ok THEN "done" ELSE "failed",
                  !.outcome = result]

OtherStartCall ==
    /\ other.pc = "waiting"
    /\ other' = [other EXCEPT !.pc = "fetch"]
    /\ UNCHANGED <<scrape, store, now, pending, pc, input_mobile,
                   training_data, input_df, training_df, model, outcome, trace,
                   log>>

\* A fetch that collects into a list the two threads share
OtherFetchSharedList ==
    /\ other.pc = "fetch"
    /\ training_data' =
           training_data \o
               Deserialize(Find(other.input_mobile["model"], store, now))
    /\ other' =
           IF Len(training_data') < MIN_RECORDS
           THEN Ended(Entered(other, "fetch"),
                      Raise("RuntimeError", "fetch", Len(training_data')))
           ELSE [Entered(other, "fetch") EXCEPT
                    !.training_data = training_data', !.pc = "encode_one"]
    /\ UNCHANGED <<scrape, store, now, pending, pc, input_mobile, input_df,
                   training_df, model, outcome, trace, log>>

\* lines 156-159
OtherFetch ==
    /\ other.pc = "fetch"
    /\ LET r == FetchTrainingData(other.input_mobile["model"], store, now)
           f == Entered(other, "fetch")
       IN other' =
              IF ~r.ok THEN Ended(f, r)
              ELSE IF Len(r.val) = 0
              THEN Ended([f EXCEPT !.training_data = r.val],
                         Raise("RuntimeError", "run_pipeline", 0))
              ELSE [f EXCEPT !.training_data = r.val, !.pc = "encode_one"]
    /\ UNCHANGED <<scrape, store, now, pending, pc, input_mobile,
                   training_data, input_df, training_df, model, outcome, trace,
                   log>>

\* line 161
OtherEncodeOne ==
    /\ other.pc = "encode_one"
    /\ other' = [Entered(other, "encode_one") EXCEPT
                    !.input_df = PreprocessInputMobile(other.input_mobile),
                    !.pc = "encode_many"]
    /\ UNCHANGED <<scrape, store, now, pending, pc, input_mobile,
                   training_data, input_df, training_df, model, outcome, trace,
                   log>>

\* line 162
OtherEncodeMany ==
    /\ other.pc = "encode_many"
    /\ LET r == PreprocessTrainingData(other.training_data)
           f == Entered(other, "encode_many")
       IN other' = IF ~r.ok THEN Ended(f, r)
                   ELSE [f EXCEPT !.training_df = r.val, !.pc = "train"]
    /\ UNCHANGED <<scrape, store, now, pending, pc, input_mobile,
                   training_data, input_df, training_df, model, outcome, trace,
                   log>>

\* line 164
OtherTrain ==
    /\ other.pc = "train"
    /\ LET r == TrainModel(other.training_df)
           f == Entered(other, "train")
       IN other' = IF ~r.ok THEN Ended(f, r)
                   ELSE [f EXCEPT !.model = r.val, !.pc = "predict"]
    /\ UNCHANGED <<scrape, store, now, pending, pc, input_mobile,
                   training_data, input_df, training_df, model, outcome, trace,
                   log>>

\* lines 166-168
OtherPredict ==
    /\ other.pc = "predict"
    /\ other' = Ended(Entered(other, "predict"),
                      PredictPrice(other.model, other.input_df,
                                   other.input_mobile))
    /\ UNCHANGED <<scrape, store, now, pending, pc, input_mobile,
                   training_data, input_df, training_df, model, outcome, trace,
                   log>>

\* No scraper is running
NoScrape == [pc |-> "absent", page_num |-> 1, all_listings |-> <<>>,
             stopped |-> "no"]

\* The two threads, interleaved stage by stage
NextPair ==
    \/ StartCall \/ Fetch \/ EncodeOne \/ EncodeMany \/ Train \/ Predict
    \/ OtherStartCall \/ OtherFetch \/ OtherEncodeOne \/ OtherEncodeMany
    \/ OtherTrain \/ OtherPredict

\* run_pipeline run alone, from its first line to its last (lines 156-168)
RunPipeline(mobile, db, t) ==
    LET fetched == FetchTrainingData(mobile["model"], db, t)
    IN IF ~fetched.ok THEN fetched
       ELSE IF Len(fetched.val) = 0
       THEN Raise("RuntimeError", "run_pipeline", 0)
       ELSE LET row == PreprocessInputMobile(mobile)
                table == PreprocessTrainingData(fetched.val)
            IN IF ~table.ok THEN table
               ELSE LET fitted == TrainModel(table.val)
                    IN IF ~fitted.ok THEN fitted
                       ELSE PredictPrice(fitted.val, row, mobile)

-----------------------------------------------------------------------------
(* Specifications: the same program over different families of inputs *)

InitWith(stores, queues) ==
    /\ store \in stores
    /\ pending \in queues
    /\ now = FirstDay
    /\ pc = "idle"
    /\ input_mobile = Unbound
    /\ training_data = <<>>
    /\ input_df = Unbound
    /\ training_df = <<>>
    /\ model = Unbound
    /\ outcome = Unbound
    /\ trace = <<>>
    /\ log = <<>>
    /\ other = NoCaller
    /\ scrape = NoScrape

\* Stores that differ in freshness, model name and validity
FetchKinds ==
    {BaseDoc, BoundaryDoc, StaleDoc, OtherModelDoc, LongerModelDoc, CorruptDoc}

Init == InitWith(Stores(FetchKinds, {BaseDoc}), {<<RequiredOnly>>})

Spec == Init /\ [][Next]_vars

\* Stores that differ in how ram and storage are written
EncodeKinds ==
    {BaseDoc, MissingCapDoc, UnpricedDoc,
     WithCapacity(PyStr(Cap4GB), PyStr(Cap64GB)),
     WithCapacity(PyStr(Cap4gb), PyStr(Cap64gb)),
     WithCapacity(PyStr(Cap4GB), PyNone),
     WithCapacity(PyStr(Cap8GB), PyStr(Cap1TB))}

InitEncode ==
    InitWith(Stores(EncodeKinds, {BaseDoc, MissingCapDoc}),
             {<<RequiredOnly>>,
              <<[RequiredOnly EXCEPT !["pta_approved"] = PyBool(FALSE)]>>})

SpecEncode == InitEncode /\ [][Next]_vars

-----------------------------------------------------------------------------
(* Properties of fetch_training_data *)

Range(f) == {f[i] : i \in DOMAIN f}

Running == pc \notin {"idle"}

\* The store positions of the documents eligible for the current call:
\* matching the requested model, fresh at the time of the call, schema-valid.
Eligible ==
    {i \in 1..Len(store) :
        /\ store[i]["model"].tag = "str"
        /\ RegexSearchI(ReEscape(input_mobile["model"].s), store[i]["model"].s)
        /\ store[i]["extraction_date"] >= now - MAX_DATA_AGE_DAYS
        /\ Validates(SplitImages(store[i]))}

\* Matching and fresh, but rejected by the schema
Rejected ==
    {i \in 1..Len(store) :
        /\ store[i]["model"].tag = "str"
        /\ RegexSearchI(ReEscape(input_mobile["model"].s), store[i]["model"].s)
        /\ store[i]["extraction_date"] >= now - MAX_DATA_AGE_DAYS
        /\ ~Validates(SplitImages(store[i]))}

\* The k-th smallest position of a set of positions
Nth(idx, k) == CHOOSE i \in idx : Cardinality({j \in idx : j <= i}) = k

FetchFailed == pc = "failed" /\ outcome.stage = "fetch"

FetchPassed == Running /\ Len(trace) >= 1 /\ ~FetchFailed

\* C1: whenever fewer than 50 eligible records exist for the requested
\* model, the call fails in fetch_training_data with the error that carries
\* the number of eligible records, and train_model is not entered.
C1_InsufficientData ==
    (Running /\ Cardinality(Eligible) < MIN_RECORDS) =>
        /\ pc \in {"fetch", "failed"}
        /\ "train" \notin Range(trace)
        /\ pc = "failed" =>
               outcome = Raise("RuntimeError", "fetch", Cardinality(Eligible))

C1_Witness ==
    /\ pc = "failed"
    /\ outcome.stage = "fetch"
    /\ outcome.count = MIN_RECORDS - 1
    /\ Len(store) >= MIN_RECORDS

\* C10: a stored record that fails validation is skipped and never aborts
\* the fetch; the list fetched is exactly the eligible records in store
\* order, and the minimum-sample check counts exactly those.
C10_SkipInvalid ==
    /\ FetchPassed =>
           /\ Cardinality(Eligible) >= MIN_RECORDS
           /\ Len(training_data) = Cardinality(Eligible)
           /\ \A k \in 1..Len(training_data) :
                  training_data[k] =
                      UsedMobile(SplitImages(store[Nth(Eligible, k)]))
    /\ FetchFailed =>
           /\ Cardinality(Eligible) < MIN_RECORDS
           /\ outcome.count = Cardinality(Eligible)

C10_Witness ==
    /\ FetchPassed
    /\ Rejected # {}
    /\ \E i \in Eligible : \E j \in Rejected : j < i
    /\ Len(training_data) = MIN_RECORDS

-----------------------------------------------------------------------------
(* Properties of the whole call for a device with only required fields *)

Finished == pc \in {"done", "failed"}

OnlyRequired(mobile) ==
    /\ \A f \in {"model", "condition", "pta_approved"} : mobile[f].tag # "None"
    /\ \A f \in UsedMobileFields \ {"model", "condition", "pta_approved"} :
           mobile[f].tag = "None"

PricedEligible == {i \in Eligible : store[i]["price"].tag = "int"}

ValidPrice(i) == store[i]["price"].n >= 0

IsPrice(result) == result.ok /\ result.val >= 0 /\ result.val % ROUND_UNIT = 0

\* ram and storage both hold the substring "GB"
WritesGB(doc) ==
    /\ doc["ram"].tag = "str" /\ Contains(doc["ram"].s, GB)
    /\ doc["storage"].tag = "str" /\ Contains(doc["storage"].s, GB)

-----------------------------------------------------------------------------
(* Properties of the training-set fallback *)

Letters == {"A", "B", "G", "T", "a", "b", "g", "t"}

\* Present and well-formed: a numeric token followed by a unit token
WellFormedCap(v) ==
    /\ v.tag = "str"
    /\ \E i \in 1..Len(v.s) :
           IsDigit(v.s[i]) /\ \E j \in (i + 1)..Len(v.s) : v.s[j] \in Letters

WellFormed(item) == WellFormedCap(item["ram"]) /\ WellFormedCap(item["storage"])

NumericToken(v) == PyInt(ToInt(FirstDigitRun(v.s)))

EncodeManyRan == Running /\ "encode_many" \in Range(trace)

EncodeManyFailed == pc = "failed" /\ outcome.stage = "encode_many"

\* C7: the fallback comes from the first record, in list order, whose ram
\* and storage are both present and well-formed, and every training row
\* whose ram (storage) is missing carries that record's parsed ram (storage).
C7_FallbackFromFirstWellFormed ==
    (/\ EncodeManyRan /\ ~EncodeManyFailed
     /\ \E i \in 1..Len(training_data) : WellFormed(training_data[i]))
        => LET first == CHOOSE i \in 1..Len(training_data) :
                            /\ WellFormed(training_data[i])
                            /\ \A j \in 1..(i - 1) : ~WellFormed(training_data[j])
           IN \A k \in 1..Len(training_data) :
                  /\ training_data[k]["ram"].tag = "None" =>
                         training_df[k]["ram"] =
                             NumericToken(training_data[first]["ram"])
                  /\ training_data[k]["storage"].tag = "None" =>
                         training_df[k]["storage"] =
                             NumericToken(training_data[first]["storage"])

\* C8: encode-many fails for want of a fallback exactly when no record of
\* the training set has both ram and storage present and well-formed.
C8_FailsIffNoneWellFormed ==
    EncodeManyRan =>
        (EncodeManyFailed <=>
            ~\E i \in 1..Len(training_data) : WellFormed(training_data[i]))

-----------------------------------------------------------------------------
(* Stores in which a defect goes with a higher asking price, and devices
   that set adjustment flags *)

CheapDoc == [BaseDoc EXCEPT !["price"] = PyInt(20200)]

PriceStores ==
    {Fill(BaseDoc, MIN_RECORDS)} \cup
    {<<doc>> \o Fill(BaseDoc, MIN_RECORDS) :
        doc \in {CheapDoc, DearDoc("screen_crack", TRUE),
                 DearDoc("pta_approved", FALSE),
                 DearDoc("camera_lens_ok", FALSE)}}

InitPrice == InitWith(PriceStores, {<<d>> : d \in FlaggedDevices})

SpecPrice == InitPrice /\ [][Next]_vars

-----------------------------------------------------------------------------
(* Properties of predict_price *)

\* The multiplier the Adjustment Policy gives each flag
Multiplier(f) ==
    CASE f = "is_panel_changed" -> [num |-> 80, den |-> 100]
      [] f = "panel_dot" -> [num |-> 75, den |-> 100]
      [] f = "panel_line" -> [num |-> 70, den |-> 100]
      [] f = "panel_shade" -> [num |-> 75, den |-> 100]
      [] f = "screen_crack" -> [num |-> 70, den |-> 100]
      [] f = "camera_lens_ok" -> [num |-> 90, den |-> 100]
      [] f = "fingerprint_ok" -> [num |-> 85, den |-> 100]
      [] f = "pta_approved" -> [num |-> 80, den |-> 100]

\* The flags of a device that are explicitly in their defect state
Triggered(mobile) == {f \in FlagNames : mobile[f] = PyBool(Defect(f))}

RECURSIVE Discounted(_, _)
Discounted(x, flags) ==
    IF flags = {} THEN x
    ELSE LET f == CHOOSE g \in flags : TRUE
         IN Discounted(MulFrac(x, Multiplier(f).num, Multiplier(f).den),
                       flags \ {f})

\* What the fitted model answers for a device, before any adjustment
RawPrediction(mobile) ==
    ForestPredict(model,
                  DropColumns(PreprocessInputMobile(mobile), {"model", "brand"}))

\* What run_pipeline returns for a device on the training set of this call
PriceOf(mobile) ==
    PredictPrice(model, PreprocessInputMobile(mobile), mobile).val

Cleared(mobile, flags) ==
    [f \in DOMAIN mobile |->
        IF f \in flags THEN PyBool(~Defect(f)) ELSE mobile[f]]

\* n is a multiple of 500 nearest to the fraction x
NearestUnit(n, x) ==
    /\ n % ROUND_UNIT = 0
    /\ 2 * (n * x.den - x.num) <= ROUND_UNIT * x.den
    /\ 2 * (x.num - n * x.den) <= ROUND_UNIT * x.den

\* C3: a device with one adjustment flag in its defect state is priced no
\* higher than the same device with that flag in its sound state, on the
\* same training set.
C3_Monotone ==
    pc = "done" =>
        \A f \in Triggered(input_mobile) :
            outcome.val <= PriceOf(Cleared(input_mobile, {f}))

\* C4: with two adjustment flags enabled the price is the prediction for
\* the device with no flag enabled, times both factors, rounded to the
\* nearest multiple of 500.
C4_Composition ==
    (pc = "done" /\ Cardinality(Triggered(input_mobile)) = 2) =>
        LET flags == Triggered(input_mobile)
        IN NearestUnit(outcome.val,
                       Discounted(RawPrediction(Cleared(input_mobile, flags)),
                                  flags))

\* C5: the price returned is a multiple of 500 nearest to the model output
\* for the query row times the multipliers of all triggered rules; the
\* first five rules trigger on true, the last three on an explicit false,
\* and an absent flag triggers nothing.
C5_AdjustAndRound ==
    pc = "done" =>
        NearestUnit(outcome.val,
                    Discounted(RawPrediction(input_mobile),
                               Triggered(input_mobile)))

C5_Witness ==
    /\ pc = "done"
    /\ Triggered(input_mobile) = FlagNames
    /\ LET x == Discounted(RawPrediction(input_mobile), FlagNames)
       IN outcome.val * x.den # x.num /\ outcome.val > 0

-----------------------------------------------------------------------------
(* Several calls, one after the other, over one store *)

SevenQuery == [RequiredOnly EXCEPT !["model"] = PyStr(<<"7">>)]

InitCalls ==
    InitWith(Stores({BaseDoc, OtherModelDoc}, {BaseDoc, MissingCapDoc}),
             Queues({RequiredOnly, SevenQuery}, MaxCalls))

SpecCalls == InitCalls /\ [][Next]_vars

IsPrefix(s, t) == Len(s) <= Len(t) /\ s = SubSeq(t, 1, Len(s))

\* The order of the stages as section 4.5 of the specification lists them
ListedOrder == <<"fetch", "encode_many", "train", "encode_one", "predict">>

\* The order in which run_pipeline calls them
CalledOrder == <<"fetch", "encode_one", "encode_many", "train", "predict">>

\* A stage is entered only after the stages before it succeeded; the first
\* failure ends the call, and only a call that ran every stage has a price.
Aborting(order) ==
    /\ IsPrefix(trace, order)
    /\ pc \in {"fetch", "encode_one", "encode_many", "train", "predict"} =>
           pc = order[Len(trace) + 1] /\ outcome = Unbound
    /\ pc = "failed" =>
           ~outcome.ok /\ Len(trace) >= 1 /\ outcome.stage = trace[Len(trace)]
    /\ pc = "done" => outcome.ok /\ trace = order
    /\ (Running /\ Len(trace) >= 2) => Len(training_data) >= MIN_RECORDS
    /\ (Running /\ "train" \in Range(trace)) =>
           /\ Len(training_df) = Len(training_data)
           /\ \E i \in 1..Len(training_data) : WritesGB(training_data[i])

\* C6 as stated: the stages run in the order fetch, encode-many, train,
\* encode-one, predict, each only after the earlier ones succeeded, and the
\* first failure ends the call without a price.
C6_ListedOrder == Aborting(ListedOrder)

\* C6 as amended: the same with encode-one second: fetch, encode-one,
\* encode-many, train, predict.
C6_CalledOrder == Aborting(CalledOrder)

C6_Witness ==
    /\ pc = "failed"
    /\ outcome.stage = "encode_many"
    /\ trace = <<"fetch", "encode_one", "encode_many">>
    /\ input_df # Unbound

-----------------------------------------------------------------------------
(* Freshness and literal matching of the fetched records *)

\* Listings of a model whose name holds a character `re` reads as an operator
DotDoc == [BaseDoc EXCEPT !["model"] = PyStr(<<"6", ".">>)]

BoundaryDotDoc ==
    [DotDoc EXCEPT !["extraction_date"] = FirstDay - MAX_DATA_AGE_DAYS]

DotQuery == [RequiredOnly EXCEPT !["model"] = PyStr(<<"6", ".">>)]

\* The same device is priced twice; a day may pass between the calls.
InitFetch ==
    InitWith(Stores({BaseDoc, DotDoc, BoundaryDotDoc}, {BaseDoc, DotDoc}),
             {<<d, d>> : d \in {RequiredOnly, DotQuery}})

SpecFetch == InitFetch /\ [][Next]_vars

LowerStr(s) == [i \in 1..Len(s) |-> LowerChar(s[i])]

\* The name occurs in the text character for character, ignoring case
OccursIgnoringCase(name, text) == Contains(LowerStr(text), LowerStr(name))

\* Store positions extracted no more than 30 days before the call whose
\* model holds the requested name literally, ignoring case
FreshAndNamed ==
    {i \in 1..Len(store) :
        /\ now - store[i]["extraction_date"] <= MAX_DATA_AGE_DAYS
        /\ store[i]["model"].tag = "str"
        /\ OccursIgnoringCase(input_mobile["model"].s, store[i]["model"].s)}

\* Those of them that UsedMobile accepts
FreshNamedValid == {i \in FreshAndNamed : Validates(SplitImages(store[i]))}

\* C11: every record fetch_training_data returns, and every row a model is
\* fitted on, comes from a stored listing extracted no more than 30 days
\* before the call whose model holds the requested name literally, ignoring
\* case; a listing outside the window is never among them.
C11_FreshAndLiteral ==
    /\ FetchPassed =>
           /\ Len(training_data) = Cardinality(FreshNamedValid)
           /\ \A k \in 1..Len(training_data) :
                  /\ training_data[k] =
                         UsedMobile(SplitImages(store[Nth(FreshNamedValid, k)]))
                  /\ OccursIgnoringCase(input_mobile["model"].s,
                                        training_data[k]["model"].s)
    /\ (Running /\ "train" \in Range(trace) /\ pc # "failed") =>
           Len(model.X) <= Cardinality(FreshNamedValid)

\* The second call, a day later, with a listing that left the window and a
\* listing that only an unescaped pattern would match
C11_Witness ==
    /\ pc = "done"
    /\ Len(log) = 2
    /\ now = FirstDay + 1
    /\ input_mobile = DotQuery
    /\ \E i \in 1..Len(store) : store[i] = BaseDoc
    /\ \E i \in 1..Len(store) : store[i] = BoundaryDotDoc
    /\ Len(training_data) < Len(store)

-----------------------------------------------------------------------------
(* Properties of train_model *)

\* Stores in which any number of listings, or all of them, carry no price
InitTrain ==
    InitWith(Stores({BaseDoc, UnpricedDoc}, {BaseDoc, UnpricedDoc}),
             {<<RequiredOnly>>})

SpecTrain == InitTrain /\ [][Next]_vars

\* Positions of the fetched records that carry a price
Priced == {k \in 1..Len(training_data) : training_data[k]["price"].tag # "None"}

TrainEntered == Running /\ "train" \in Range(trace)

TrainFailed == pc = "failed" /\ outcome.stage = "train"

\* C12: the model is fitted on exactly the rows whose price is present, in
\* order, one label per row; when no priced row remains train_model fails
\* and no model is returned.
C12_FitsOnPricedOnly ==
    TrainEntered =>
        /\ TrainFailed <=> Priced = {}
        /\ TrainFailed =>
               /\ outcome = Raise("ValueError", "train", 0)
               /\ model = Unbound
               /\ "predict" \notin Range(trace)
        /\ ~TrainFailed =>
               /\ Len(model.X) = Cardinality(Priced)
               /\ Len(model.y) = Cardinality(Priced)
               /\ \A j \in 1..Len(model.y) :
                      /\ model.y[j] = training_data[Nth(Priced, j)]["price"].n
                      /\ model.X[j] =
                             DropColumns(training_df[Nth(Priced, j)], {"price"})

C12_Witness ==
    /\ TrainFailed
    /\ Len(training_data) >= MIN_RECORDS
    /\ Range(trace) = {"fetch", "encode_one", "encode_many", "train"}

-----------------------------------------------------------------------------
(* The price-prediction tool (agent/tools.py) *)

\* price_prediction_wrapper after its call of run_pipeline: a price is
\* returned wrapped in a dictionary; there is no try around the call, so an
\* exception of run_pipeline leaves the wrapper as it is.
PricePredictionWrapper(result) ==
    IF result.ok THEN Return([predicted_price |-> result.val]) ELSE result

\* What the tool hands to the agent once run_pipeline has ended
ToolResult == PricePredictionWrapper(outcome)

\* The dictionary the tool description promises when data is missing
NeedsFreshData(r) ==
    /\ r.ok
    /\ "need_fresh_data" \in DOMAIN r.val
    /\ r.val["need_fresh_data"] = TRUE

\* C13: when run_pipeline fails for want of fresh records, the tool returns
\* need_fresh_data = True instead of an undifferentiated failure.
C13_SignalsFreshData == FetchFailed => NeedsFreshData(ToolResult)

-----------------------------------------------------------------------------
(* Alignment of the query row with the fitted table *)

\* The call has a fitted model and a query row, and is at or past scoring
AtScoring ==
    \/ pc \in {"predict", "done"}
    \/ pc = "failed" /\ outcome.stage = "predict"

\* The query row as predict_price hands it to the model
ScoredRow == DropColumns(input_df, {"model", "brand"})

\* C14: in every call that reaches scoring, the columns of the query row
\* given to the model, model and brand stripped, are the columns of the
\* table the model was fitted on, in the same order, and scoring does not
\* fail.
C14_ColumnsAligned ==
    AtScoring =>
        /\ \A i \in 1..Len(model.X) :
               /\ DOMAIN ScoredRow = DOMAIN model.X[i]
               /\ Columns(ScoredRow) = Columns(model.X[i])
        /\ Len(Columns(ScoredRow)) = Cardinality(DOMAIN ScoredRow)
        /\ Columns(ScoredRow) =
               Columns(DropColumns(training_df[1], {"price"}))
        /\ pc # "failed"

C14_Witness ==
    /\ pc = "done"
    /\ Len(model.X) < Len(training_df)
    /\ input_mobile["pta_approved"] = PyBool(FALSE)
    /\ Len(Columns(ScoredRow)) = 13

-----------------------------------------------------------------------------
(* Capacity parsing of the query device *)

\* The ways a caller writes a capacity: gigabytes in either case, terabytes,
\* a unit without a number, or nothing
Capacities ==
    {PyNone, PyStr(Cap8GB), PyStr(Cap4gb), PyStr(Cap1TB), PyStr(GB)}

CapacityDevices ==
    {[RequiredOnly EXCEPT !["ram"] = r, !["storage"] = s] :
        r \in Capacities, s \in Capacities}

InitCapacity ==
    InitWith(Stores({BaseDoc}, {BaseDoc}), {<<d>> : d \in CapacityDevices})

SpecCapacity == InitCapacity /\ [][Next]_vars

EncodeOneRan == Running /\ "encode_one" \in Range(trace)

\* The value the capacity rule gives: the number of the numeric token, or
\* missing when the input is absent or holds no digit
ParsedCapacity(v) ==
    IF v.tag = "str" /\ HasDigit(v.s) THEN NumericToken(v) ELSE PyNone

\* C15: in the encoded query row ram and storage are each the integer of
\* the input's numeric token, or missing when the input is absent or holds
\* no digit; no capacity stays in the row as a string, whatever its unit or
\* letter case.
C15_CapacityParsed ==
    EncodeOneRan =>
        \A f \in {"ram", "storage"} :
            /\ input_df[f] = ParsedCapacity(input_mobile[f])
            /\ input_df[f].tag # "str"

-----------------------------------------------------------------------------
(* Two interleaved calls *)

PairDevices == {RequiredOnly, SevenQuery}

\* One call in each thread, for the same model or for different ones
InitPair ==
    /\ store \in Stores({BaseDoc, OtherModelDoc}, {BaseDoc})
    /\ pending \in {<<d>> : d \in PairDevices}
    /\ other \in {Frame(d) : d \in PairDevices}
    /\ now = FirstDay
    /\ pc = "idle"
    /\ input_mobile = Unbound
    /\ training_data = <<>>
    /\ input_df = Unbound
    /\ training_df = <<>>
    /\ model = Unbound
    /\ outcome = Unbound
    /\ trace = <<>>
    /\ log = <<>>
    /\ scrape = NoScrape

SpecPair == InitPair /\ [][NextPair]_vars

OtherFinished == other.pc \in {"done", "failed"}

\* Each call that has ended returned what it returns when run alone
SameAsAlone ==
    /\ Finished => outcome = RunPipeline(input_mobile, store, now)
    /\ OtherFinished =>
           other.outcome = RunPipeline(other.input_mobile, store, now)

\* C16: no step of run_pipeline writes to the store, on success or failure,
\* and under every interleaving of two calls over the unchanged store each
\* call returns the outcome it returns when run alone.
C16_Isolated == [][store' = store]_vars /\ []SameAsAlone

\* Both calls have ended, one with a price and one with an error, and the
\* thread that ended with the error fetched while the other was under way
C16_Witness ==
    /\ pc = "done"
    /\ other.pc = "failed"
    /\ other.input_mobile # input_mobile
    /\ Range(trace) \cap Range(other.trace) = {"fetch"}

-----------------------------------------------------------------------------
(* scrape_used_data (services/olx_scraper_service.py) *)

\* line 301: the loop stops once this many listings are collected
ENOUGH_LISTINGS == 100

\* Ads on one result page
MaxAds == 2

\* An ad with all its tags, by how far extract_data gets with it: rejected
\* by model verification, extraction raising, the insert failing, or saved.
AdKinds == {"mismatch", "unextractable", "uninsertable", "good"}

\* save_to_db: True with the document inserted, False when insert_one raises
SaveToDb(ad) == ad # "uninsertable"

\* extract_data that returns True once the record is extracted, saved or not
ExtractDataIgnoresInsert(ad) ==
    IF ad = "mismatch" THEN FALSE
    ELSE IF ad = "unextractable" THEN FALSE
    ELSE TRUE

\* extract_data: False on a mismatch or an exception, True only after
\* save_to_db returned True (None, which counts as False, when it did not)
ExtractData(ad) ==
    IF ad = "mismatch" THEN FALSE
    ELSE IF ad = "unextractable" THEN FALSE
    ELSE SaveToDb(ad)

\* The document save_to_db inserts for an ad: extraction_date is now
SavedDoc(t) == [BaseDoc EXCEPT !["extraction_date"] = t]

\* get_ads_from_page, the loop over the ads of the page: the ads counted as
\* collected, and the documents inserted on the way
RECURSIVE GetAdsFromPage(_, _)
GetAdsFromPage(ads, t) ==
    IF ads = <<>> THEN [listings |-> <<>>, inserted |-> <<>>]
    ELSE LET rest == GetAdsFromPage(Tail(ads), t)
             ad == Head(ads)
         IN [listings |-> IF ExtractData(ad)
                          THEN <<ad>> \o rest.listings
                          ELSE rest.listings,
             inserted |-> IF ad \notin {"mismatch", "unextractable"}
                             /\ SaveToDb(ad)
                          THEN <<SavedDoc(t)>> \o rest.inserted
                          ELSE rest.inserted]

\* lines 289-291
NewScrape == [pc |-> "loop", page_num |-> 1, all_listings |-> <<>>,
              stopped |-> "no"]

\* lines 294-305: one turn of the page loop.  The page request returns some
\* ads, or raises and the except around the loop ends it.
ScrapePage ==
    /\ scrape.pc = "loop"
    /\ \/ \E ads \in Seqs(AdKinds, MaxAds) :
              LET page == GetAdsFromPage(ads, now)
                  all == scrape.all_listings \o page.listings
              IN /\ store' = store \o page.inserted
                 /\ scrape' =
                        IF page.listings = <<>>
                        THEN [scrape EXCEPT !.pc = "save", !.stopped = "empty"]
                        ELSE IF Len(all) >= ENOUGH_LISTINGS
                        THEN [scrape EXCEPT !.all_listings = all,
                                            !.pc = "save",
                                            !.stopped = "enough"]
                        ELSE [scrape EXCEPT !.all_listings = all,
                                            !.page_num = @ + 1]
       \/ /\ scrape' = [scrape EXCEPT !.pc = "save", !.stopped = "error"]
          /\ UNCHANGED store
    /\ UNCHANGED <<now, pending, pc, input_mobile, training_data, input_df,
                   training_df, model, outcome, trace, log, other>>

\* lines 311-316: the collected listings are written to a CSV file
WriteCsv ==
    /\ scrape.pc = "save"
    /\ scrape' = [scrape EXCEPT !.pc = "done"]
    /\ UNCHANGED <<store, now, pending, pc, input_mobile, training_data,
                   input_df, training_df, model, outcome, trace, log, other>>

NextScrape == ScrapePage \/ WriteCsv

InitScrape ==
    /\ store = <<>>
    /\ pending = <<>>
    /\ now = FirstDay
    /\ pc = "idle"
    /\ input_mobile = Unbound
    /\ training_data = <<>>
    /\ input_df = Unbound
    /\ training_df = <<>>
    /\ model = Unbound
    /\ outcome = Unbound
    /\ trace = <<>>
    /\ log = <<>>
    /\ other = NoCaller
    /\ scrape = NewScrape

\* The loop keeps running: each page request returns
SpecScrape == InitScrape /\ [][NextScrape]_vars /\ WF_vars(NextScrape)

\* At most 100 pages are requested; the loop runs only below 100 collected,
\* every page before the current one having added a listing; it stops on an
\* empty page, at 100 or more, or on an error; and the collected listings
\* are exactly the ads verified, extracted and inserted.
ScrapeBounded ==
    /\ scrape.page_num <= ENOUGH_LISTINGS
    /\ scrape.pc = "loop" =>
           /\ scrape.stopped = "no"
           /\ Len(scrape.all_listings) < ENOUGH_LISTINGS
           /\ Len(scrape.all_listings) >= scrape.page_num - 1
    /\ scrape.pc \in {"save", "done"} =>
           /\ scrape.stopped \in {"empty", "enough", "error"}
           /\ scrape.stopped = "enough" <=>
                  Len(scrape.all_listings) >= ENOUGH_LISTINGS
    /\ \A i \in 1..Len(scrape.all_listings) : scrape.all_listings[i] = "good"
    /\ Len(store) = Len(scrape.all_listings)

\* C17: the page loop of scrape_used_data always ends, after at most 100
\* pages, at the first page without a collected listing or once 100 are
\* collected; a listing is counted only if it was verified, extracted and
\* inserted.
C17_LoopTerminates == []ScrapeBounded /\ <>(scrape.pc = "done")

\* The hundredth page is requested and brings the total to 100
C17_Witness ==
    /\ scrape.pc = "done"
    /\ scrape.page_num = ENOUGH_LISTINGS
    /\ scrape.stopped = "enough"
    /\ Len(store) = ENOUGH_LISTINGS

====
